---------------------------- MODULE Spec2Model ----------------------------
(***************************************************************************)
(* transfer-sim: simulation of an ERC20 transferFrom through one eth_call  *)
(* with a state override that replaces the code of the destination.        *)
(*                                                                         *)
(* Three implementations live in the repository and are modelled side by   *)
(* side:                                                                   *)
(*   - src/go/transfersim.go   package transfersim ("go"),  TransferSim    *)
(*   - src/transfersim.go      root package ("root"),       TransferSim    *)
(*   - src/js/transfer-sim.js  Node.js translation ("js"),  transferSim    *)
(*                                                                         *)
(* Byte strings are sequences over 0..255.  A *big.Int is a record         *)
(* [neg, abs] whose abs is the big-endian magnitude without leading zero   *)
(* bytes (what big.Int.Bytes returns), so that two big.Int are numerically *)
(* equal exactly when the records are equal; machine integers of the       *)
(* model checker are never used for amounts, which reach 2^256 and more.   *)
(* Text (hex strings) is a sequence of one-character strings.              *)
(***************************************************************************)
EXTENDS Integers, Sequences, FiniteSets, TLC

VARIABLES
  mockReceiverBytecode, \* go: the package-level var holding the probe code
  pc,                   \* per caller: position of its invocation
  impl,                 \* per caller: which implementation it invoked
  args,                 \* per caller: the arguments of its invocation
  request,              \* per caller: the request handed to the RPC client
  calls,                \* per caller: requests issued by this invocation
  pending,              \* per caller: requests in flight, not yet settled
  response,             \* per caller: what the RPC client returned
  ret,                  \* per caller: what the invocation returned
  heap,                 \* per caller, go: the big.Int objects the caller holds
  history               \* the invocations whose result the caller has taken

vars ==
  <<mockReceiverBytecode, pc, impl, args, request, calls, pending, response,
    ret, heap, history>>

(***************************************************************************)
(* Bounds of the model.                                                    *)
(***************************************************************************)
\* amounts and node results of up to WordLen + MaxOverflowBytes bytes
MaxOverflowBytes == 1

(***************************************************************************)
(* Program constants.                                                      *)
(***************************************************************************)
WordLen == 32       \* common.LeftPadBytes(..., 32)
AddressLength == 20 \* common.Address

(***************************************************************************)
(* Bytes and hexadecimal text.                                             *)
(***************************************************************************)
Fill(n, b) == [i \in 1..n |-> b]

HexDigits == <<"0", "1", "2", "3", "4", "5", "6", "7",
               "8", "9", "a", "b", "c", "d", "e", "f">>

HexDigitsUpper == <<"0", "1", "2", "3", "4", "5", "6", "7",
                    "8", "9", "A", "B", "C", "D", "E", "F">>

IsHexChar(c) ==
  \E i \in 1..16 : HexDigits[i] = c \/ HexDigitsUpper[i] = c

\* the value of one hexadecimal character (encoding/hex fromHexChar)
HexVal(c) ==
  (CHOOSE i \in 1..16 : HexDigits[i] = c \/ HexDigitsUpper[i] = c) - 1

\* a faulty variant of DecodeString: the digits a-f are refused
DecodeStringDecimalOnly(s) ==
  LET n == Len(s) \div 2
      dec(c) == \E i \in 1..10 : HexDigits[i] = c
      good(k) == dec(s[2 * k - 1]) /\ dec(s[2 * k])
      bad == {k \in 1..n : ~good(k)}
      m == IF bad = {} THEN n
           ELSE (CHOOSE k \in bad : \A j \in bad : k <= j) - 1
  IN [bytes |-> [k \in 1..m |-> 16 * HexVal(s[2 * k - 1]) + HexVal(s[2 * k])],
      ok |-> (bad = {} /\ Len(s) % 2 = 0)]

\* encoding/hex DecodeString: two characters per byte; an odd length or a
\* character that is no hex digit is an error, reported next to the bytes
\* decoded before it.
DecodeString(s) ==
  LET n == Len(s) \div 2
      good(k) == IsHexChar(s[2 * k - 1]) /\ IsHexChar(s[2 * k])
      bad == {k \in 1..n : ~good(k)}
      m == IF bad = {} THEN n
           ELSE (CHOOSE k \in bad : \A j \in bad : k <= j) - 1
  IN [bytes |-> [k \in 1..m |-> 16 * HexVal(s[2 * k - 1]) + HexVal(s[2 * k])],
      ok |-> (bad = {} /\ Len(s) % 2 = 0)]

Has0xPrefix(s) ==
  Len(s) >= 2 /\ s[1] = "0" /\ (s[2] = "x" \/ s[2] = "X")

\* hexutil.MustDecode: the text must carry the 0x prefix and decode; the
\* program panics at package initialisation otherwise.
MustDecode(s) ==
  IF Has0xPrefix(s) /\ Len(s) > 2 /\ DecodeString(SubSeq(s, 3, Len(s))).ok
  THEN [bytes |-> DecodeString(SubSeq(s, 3, Len(s))).bytes, panic |-> FALSE]
  ELSE [bytes |-> <<>>, panic |-> TRUE]

\* the hexadecimal text of the runtime bytecode of the mock receiver (the
\* same in the three implementations), without its 0x prefix
bytecodeHex ==
  <<
     "6", "0", "8", "0", "6", "0", "4", "0", "5", "2", "3", "4", "8", "0", "1", "5", "6", "1", "0", "0", "0", "f", "5", "7", "5", "f",
     "5", "f", "f", "d", "5", "b", "5", "0", "6", "0", "4", "0", "8", "0", "5", "1", "6", "3", "7", "0", "a", "0", "8", "2", "3", "1",
     "6", "0", "e", "0", "1", "b", "8", "1", "5", "2", "3", "0", "6", "0", "0", "4", "8", "2", "0", "1", "5", "2", "5", "f", "8", "0",
     "3", "5", "9", "2", "6", "0", "2", "0", "3", "5", "9", "2", "9", "0", "3", "5", "9", "1", "9", "0", "6", "0", "0", "1", "6", "0",
     "0", "1", "6", "0", "a", "0", "1", "b", "0", "3", "8", "5", "1", "6", "9", "0", "6", "3", "7", "0", "a", "0", "8", "2", "3", "1",
     "9", "0", "6", "0", "2", "4", "0", "1", "6", "0", "2", "0", "6", "0", "4", "0", "5", "1", "8", "0", "8", "3", "0", "3", "8", "1",
     "8", "6", "5", "a", "f", "a", "1", "5", "8", "0", "1", "5", "6", "1", "0", "0", "5", "f", "5", "7", "3", "d", "5", "f", "5", "f",
     "3", "e", "3", "d", "5", "f", "f", "d", "5", "b", "5", "0", "5", "0", "5", "0", "5", "0", "6", "0", "4", "0", "5", "1", "3", "d",
     "6", "0", "1", "f", "1", "9", "6", "0", "1", "f", "8", "2", "0", "1", "1", "6", "8", "2", "0", "1", "8", "0", "6", "0", "4", "0",
     "5", "2", "5", "0", "8", "1", "0", "1", "9", "0", "6", "1", "0", "0", "8", "3", "9", "1", "9", "0", "6", "1", "0", "1", "7", "d",
     "5", "6", "5", "b", "6", "0", "4", "0", "5", "1", "6", "3", "2", "3", "b", "8", "7", "2", "d", "d", "6", "0", "e", "0", "1", "b",
     "8", "1", "5", "2", "6", "0", "0", "1", "6", "0", "0", "1", "6", "0", "a", "0", "1", "b", "0", "3", "8", "5", "8", "1", "1", "6",
     "6", "0", "0", "4", "8", "3", "0", "1", "5", "2", "3", "0", "6", "0", "2", "4", "8", "3", "0", "1", "5", "2", "6", "0", "4", "4",
     "8", "2", "0", "1", "8", "5", "9", "0", "5", "2", "9", "1", "9", "2", "5", "0", "9", "0", "8", "5", "1", "6", "9", "0", "6", "3",
     "2", "3", "b", "8", "7", "2", "d", "d", "9", "0", "6", "0", "6", "4", "0", "1", "6", "0", "2", "0", "6", "0", "4", "0", "5", "1",
     "8", "0", "8", "3", "0", "3", "8", "1", "5", "f", "8", "7", "5", "a", "f", "1", "1", "5", "8", "0", "1", "5", "6", "1", "0", "0",
     "d", "9", "5", "7", "3", "d", "5", "f", "5", "f", "3", "e", "3", "d", "5", "f", "f", "d", "5", "b", "5", "0", "5", "0", "5", "0",
     "5", "0", "6", "0", "4", "0", "5", "1", "3", "d", "6", "0", "1", "f", "1", "9", "6", "0", "1", "f", "8", "2", "0", "1", "1", "6",
     "8", "2", "0", "1", "8", "0", "6", "0", "4", "0", "5", "2", "5", "0", "8", "1", "0", "1", "9", "0", "6", "1", "0", "0", "f", "d",
     "9", "1", "9", "0", "6", "1", "0", "1", "9", "4", "5", "6", "5", "b", "5", "0", "6", "0", "4", "0", "5", "1", "6", "3", "7", "0",
     "a", "0", "8", "2", "3", "1", "6", "0", "e", "0", "1", "b", "8", "1", "5", "2", "3", "0", "6", "0", "0", "4", "8", "2", "0", "1",
     "5", "2", "5", "f", "9", "0", "6", "0", "0", "1", "6", "0", "0", "1", "6", "0", "a", "0", "1", "b", "0", "3", "8", "6", "1", "6",
     "9", "0", "6", "3", "7", "0", "a", "0", "8", "2", "3", "1", "9", "0", "6", "0", "2", "4", "0", "1", "6", "0", "2", "0", "6", "0",
     "4", "0", "5", "1", "8", "0", "8", "3", "0", "3", "8", "1", "8", "6", "5", "a", "f", "a", "1", "5", "8", "0", "1", "5", "6", "1",
     "0", "1", "4", "2", "5", "7", "3", "d", "5", "f", "5", "f", "3", "e", "3", "d", "5", "f", "f", "d", "5", "b", "5", "0", "5", "0",
     "5", "0", "5", "0", "6", "0", "4", "0", "5", "1", "3", "d", "6", "0", "1", "f", "1", "9", "6", "0", "1", "f", "8", "2", "0", "1",
     "1", "6", "8", "2", "0", "1", "8", "0", "6", "0", "4", "0", "5", "2", "5", "0", "8", "1", "0", "1", "9", "0", "6", "1", "0", "1",
     "6", "6", "9", "1", "9", "0", "6", "1", "0", "1", "7", "d", "5", "6", "5", "b", "9", "0", "5", "0", "5", "f", "6", "1", "0", "1",
     "7", "3", "8", "3", "8", "3", "6", "1", "0", "1", "b", "a", "5", "6", "5", "b", "9", "0", "5", "0", "8", "0", "5", "f", "5", "2",
     "6", "0", "2", "0", "5", "f", "f", "3", "5", "b", "5", "f", "6", "0", "2", "0", "8", "2", "8", "4", "0", "3", "1", "2", "1", "5",
     "6", "1", "0", "1", "8", "d", "5", "7", "5", "f", "5", "f", "f", "d", "5", "b", "5", "0", "5", "1", "9", "1", "9", "0", "5", "0",
     "5", "6", "5", "b", "5", "f", "6", "0", "2", "0", "8", "2", "8", "4", "0", "3", "1", "2", "1", "5", "6", "1", "0", "1", "a", "4",
     "5", "7", "5", "f", "5", "f", "f", "d", "5", "b", "8", "1", "5", "1", "8", "0", "1", "5", "1", "5", "8", "1", "1", "4", "6", "1",
     "0", "1", "b", "3", "5", "7", "5", "f", "5", "f", "f", "d", "5", "b", "9", "3", "9", "2", "5", "0", "5", "0", "5", "0", "5", "6",
     "5", "b", "8", "1", "8", "1", "0", "3", "8", "1", "8", "1", "1", "1", "1", "5", "6", "1", "0", "1", "d", "9", "5", "7", "6", "3",
     "4", "e", "4", "8", "7", "b", "7", "1", "6", "0", "e", "0", "1", "b", "5", "f", "5", "2", "6", "0", "1", "1", "6", "0", "0", "4",
     "5", "2", "6", "0", "2", "4", "5", "f", "f", "d", "5", "b", "9", "2", "9", "1", "5", "0", "5", "0", "5", "6", "f", "e", "a", "2",
     "6", "4", "6", "9", "7", "0", "6", "6", "7", "3", "5", "8", "2", "2", "1", "2", "2", "0", "4", "8", "8", "3", "c", "5", "e", "4",
     "b", "1", "0", "4", "b", "d", "f", "d", "f", "d", "b", "6", "f", "c", "0", "d", "a", "f", "e", "f", "3", "3", "5", "6", "b", "8",
     "e", "f", "0", "2", "d", "5", "7", "0", "9", "f", "2", "3", "c", "7", "0", "b", "9", "0", "c", "2", "4", "2", "7", "7", "3", "e",
     "3", "3", "c", "0", "6", "4", "7", "3", "6", "f", "6", "c", "6", "3", "4", "3", "0", "0", "0", "8", "2", "1", "0", "0", "3", "3"
  >>

\* go: hexutil.MustDecode("0x6080...")
goBytecodeLiteral == <<"0", "x">> \o bytecodeHex

(***************************************************************************)
(* math/big.                                                               *)
(***************************************************************************)
\* a nil *big.Int
NilInt == [nil |-> TRUE, neg |-> FALSE, abs |-> <<>>]

\* b without its leading zero bytes
StripLeadingZeros[b \in Seq(0..255)] ==
  IF \A i \in 1..Len(b) : b[i] = 0 THEN <<>>
  ELSE SubSeq(b, CHOOSE i \in 1..Len(b) :
                   b[i] # 0 /\ \A j \in 1..(i - 1) : b[j] = 0, Len(b))

\* new(big.Int).SetBytes(b): b as a big-endian unsigned integer
SetBytes(b) == [nil |-> FALSE, neg |-> FALSE, abs |-> StripLeadingZeros[b]]

\* new(big.Int).Set(x): a copy of x, sign included
Set(x) == [nil |-> FALSE, neg |-> x.neg, abs |-> x.abs]

\* x.Bytes(): the big-endian magnitude of x, the sign dropped
Bytes(x) == x.abs

BigNat(b) == [nil |-> FALSE, neg |-> FALSE, abs |-> b]

BigNeg(b) == [nil |-> FALSE, neg |-> TRUE, abs |-> b]

\* Arithmetic on magnitudes (big-endian, no leading zero byte), as math/big
\* computes it on nat.  The steps are functions, so that each is applied
\* to values already computed.  Column c of a magnitude is its byte of
\* weight 256^c; a column vector v holds column c at v[c + 1].
Magnitudes == Seq(0..255)

Columns == Seq(Nat)

Col(s, c) == IF c >= 0 /\ c < Len(s) THEN s[Len(s) - c] ELSE 0

ColOf(v, c) == IF c >= 0 /\ c < Len(v) THEN v[c + 1] ELSE 0

NatLess(a, b) ==
  \/ Len(a) < Len(b)
  \/ /\ Len(a) = Len(b)
     /\ \E i \in 1..Len(a) :
          /\ a[i] < b[i]
          /\ \A j \in 1..(i - 1) : a[j] = b[j]

NatLeq(a, b) == a = b \/ NatLess(a, b)

Strip[b \in Columns] ==
  IF \A i \in 1..Len(b) : b[i] = 0 THEN <<>>
  ELSE SubSeq(b, CHOOSE i \in 1..Len(b) :
                   b[i] # 0 /\ \A j \in 1..(i - 1) : b[j] = 0, Len(b))

\* One round of carry propagation on a column vector: every column keeps
\* its low byte and hands its second and third byte to the next two
\* columns; the number represented is unchanged.
CarrySave[v \in Columns] ==
  [i \in 1..(Len(v) + 2) |->
     (ColOf(v, i - 1) % 256) + ((ColOf(v, i - 2) \div 256) % 256)
       + (ColOf(v, i - 3) \div 65536)]

\* The bytes of a column vector whose columns are at most 256: a column
\* receives a carry when the nearest lower column that is not 255 is 256.
Resolve[v \in Columns] ==
  [i \in 1..Len(v) |->
     LET c == Len(v) - i
     IN (ColOf(v, c)
          + (IF \E j \in 0..(c - 1) :
                  ColOf(v, j) >= 256
                    /\ \A m \in (j + 1)..(c - 1) : ColOf(v, m) = 255
             THEN 1 ELSE 0)) % 256]

\* The magnitude of a column vector with columns below 2^22: three rounds
\* leave columns of at most 256.
FromCols[v \in Columns] == Strip[Resolve[CarrySave[CarrySave[CarrySave[v]]]]]

NatAddF[a \in Magnitudes, b \in Magnitudes] ==
  FromCols[[i \in 1..(IF Len(a) > Len(b) THEN Len(a) ELSE Len(b)) |->
              Col(a, i - 1) + Col(b, i - 1)]]

NatAdd(a, b) == NatAddF[a, b]

\* a * k for a machine word k in 0..255
NatMulWordF[a \in Magnitudes, k \in 0..255] ==
  FromCols[[i \in 1..Len(a) |-> Col(a, i - 1) * k]]

NatMulWord(a, k) == NatMulWordF[a, k]

\* a - b for a >= b: a column borrows when the nearest lower column where
\* a and b differ has the smaller byte in a
NatSubF[a \in Magnitudes, b \in Magnitudes] ==
  Strip[[i \in 1..Len(a) |->
     LET c == Len(a) - i
     IN (Col(a, c) - Col(b, c) + 256
          - (IF \E j \in 0..(c - 1) :
                  Col(a, j) < Col(b, j)
                    /\ \A m \in (j + 1)..(c - 1) : Col(a, m) = Col(b, m)
             THEN 1 ELSE 0)) % 256]]

NatSub(a, b) == NatSubF[a, b]

\* a * 256 + d
NatShiftIn(a, d) == Strip[a \o <<d>>]

\* a * b, one byte of b at a time: acc is a times the first j - 1 bytes of b
NatMulLoop[a \in Magnitudes, b \in Magnitudes, j \in Nat, acc \in Magnitudes] ==
  IF j > Len(b) THEN acc
  ELSE NatMulLoop[a, b, j + 1,
                  NatAdd(NatShiftIn(acc, 0), NatMulWord(a, b[j]))]

NatMul(a, b) ==
  IF Len(a) >= Len(b) THEN NatMulLoop[a, b, 1, <<>>]
  ELSE NatMulLoop[b, a, 1, <<>>]

\* the largest k in 0..255 with y * k <= r, for r < y * 256: the bits of k
\* from the highest down, k being the bits settled so far
NatQuoWordLoop[r \in Magnitudes, y \in Magnitudes, bit \in Nat, k \in Nat] ==
  IF bit = 0 THEN k
  ELSE NatQuoWordLoop[r, y, bit \div 2,
                      IF NatLeq(NatMulWord(y, k + bit), r)
                      THEN k + bit ELSE k]

NatQuoWord(r, y) == NatQuoWordLoop[r, y, 128, 0]

\* one step of the long division by y: cur is the remainder so far with
\* the next byte of the dividend taken in, d the quotient byte it gives
NatDivDigit[cur \in Magnitudes, y \in Magnitudes, d \in 0..255] ==
  [d |-> d, rem |-> NatSub(cur, NatMulWord(y, d))]

NatDivStep[cur \in Magnitudes, y \in Magnitudes] ==
  NatDivDigit[cur, y, NatQuoWord(cur, y)]

\* a step of the division: the quotient digit and the remainder
DivSteps == [d : 0..255, rem : Magnitudes]

\* the division so far: the quotient and the remainder
DivStates == [quo : Magnitudes, rem : Magnitudes]

NatDivAdvance[quo \in Magnitudes, step \in DivSteps] ==
  [quo |-> NatShiftIn(quo, step.d), rem |-> step.rem]

\* the long division of x by y, one byte of x at a time: st holds the
\* quotient and the remainder of the first j - 1 bytes of x
NatDivLoop[x \in Magnitudes, y \in Magnitudes, j \in Nat, st \in DivStates] ==
  IF j > Len(x) THEN st.quo
  ELSE NatDivLoop[x, y, j + 1,
         NatDivAdvance[st.quo, NatDivStep[NatShiftIn(st.rem, x[j]), y]]]

\* floor(x / y) for y # 0
NatDiv(x, y) == NatDivLoop[x, y, 1, [quo |-> <<>>, rem |-> <<>>]]

\* new(big.Int).Mul(x, y)
Mul(x, y) ==
  LET m == NatMul(x.abs, y.abs)
  IN [nil |-> FALSE, neg |-> (m # <<>> /\ x.neg # y.neg), abs |-> m]

\* z.Div(x, y) for x >= 0 and y # 0 (Euclidean division; with x >= 0 the
\* quotient is the truncated one)
Div(x, y) ==
  LET q == NatDiv(x.abs, y.abs)
  IN [nil |-> FALSE, neg |-> (q # <<>> /\ y.neg), abs |-> q]

(***************************************************************************)
(* go-ethereum/common.                                                     *)
(***************************************************************************)
\* common.LeftPadBytes(slice, l): zero bytes in front, up to l bytes; a
\* slice of l bytes or more is returned as it is.
LeftPadBytes(slice, l) ==
  IF l <= Len(slice) THEN slice ELSE Fill(l - Len(slice), 0) \o slice

(***************************************************************************)
(* Inputs.                                                                 *)
(***************************************************************************)
Addr11 == Fill(AddressLength, 17)  \* 0x1111...11
Addr22 == Fill(AddressLength, 34)  \* 0x2222...22
Addr01 == [i \in 1..AddressLength |-> IF i = AddressLength THEN 1 ELSE 0]

Addresses == {Addr11, Addr22, Addr01}

OneE18Bytes == <<13, 224, 182, 179, 167, 100, 0, 0>> \* 0x0de0b6b3a7640000

TwoE18Bytes == <<27, 193, 109, 103, 78, 200, 0, 0>> \* 2 * 10^18

TwoE18PlusOneBytes == <<27, 193, 109, 103, 78, 200, 0, 1>> \* 2 * 10^18 + 1

\* magnitudes of WordLen bytes and less, and of more than WordLen bytes
WordMagnitudes ==
  {<<>>, <<1>>, <<18, 52>>, OneE18Bytes, Fill(WordLen, 255)}

OverflowMagnitudes ==
  {<<1>> \o Fill(WordLen + k - 1, 0) : k \in 1..MaxOverflowBytes}

Amounts ==
  {BigNat(b) : b \in WordMagnitudes \cup OverflowMagnitudes}
    \cup {BigNeg(<<1>>)}

NoErr == "nil"

Errors == {"connection refused", "execution reverted"}

\* what the RPC client hands back: an error with no result, or result bytes
\* of any length (the JSON text "0x..." unmarshalled by hexutil.Bytes)
ResultBytes ==
  {<<>>, <<1>>, Fill(WordLen - 1, 255), Fill(WordLen, 0), Fill(WordLen, 255),
   LeftPadBytes(<<18, 52>>, WordLen), LeftPadBytes(OneE18Bytes, WordLen),
   LeftPadBytes(<<99>>, WordLen), LeftPadBytes(TwoE18PlusOneBytes, WordLen)}
    \cup {Fill(WordLen + k, 1) : k \in 1..MaxOverflowBytes}

CallResults ==
  {[bytes |-> b, err |-> NoErr] : b \in ResultBytes}
    \cup {[bytes |-> <<>>, err |-> e] : e \in Errors}

(***************************************************************************)
(* src/go/transfersim.go                                                   *)
(***************************************************************************)
\* a faulty variant of buildMockCallData: the source before the token
buildMockCallDataFromFirst(token, from, amount) ==
  LeftPadBytes(from, WordLen)
    \o LeftPadBytes(token, WordLen)
    \o LeftPadBytes(Bytes(amount), WordLen)

\* buildMockCallData(token, from, amount)
buildMockCallData(token, from, amount) ==
  LeftPadBytes(token, WordLen)
    \o LeftPadBytes(from, WordLen)
    \o LeftPadBytes(Bytes(amount), WordLen)

\* a faulty variant of the override: the entry for to without its code
stateOverrideWithoutCode(to, code) == [a \in {to} |-> [code |-> <<>>]]

\* stateOverride{to: {Code: mockReceiverBytecode}}; overrideAccount has the
\* one field Code
stateOverride(to, code) == [a \in {to} |-> [code |-> code]]

\* the arguments callWithStateOverride gives to CallContext: the method,
\* callArgs{To, Data}, the block reference and the overrides
callWithStateOverride(to, data, overrides) ==
  [method |-> "eth_call",
   call |-> [to |-> to, data |-> data],
   block |-> <<"latest">>,
   overrides |-> overrides]

\* a faulty variant of lines 30-34: the bytes read as a signed
\* (two's complement) integer
TransferSimResultSigned(amount, resultBytes, err) ==
  IF err # NoErr
  THEN [value |-> Set(amount), err |-> err]
  ELSE IF resultBytes # <<>> /\ resultBytes[1] >= 128
       THEN [value |->
               BigNeg(NatAdd(StripLeadingZeros[
                               [i \in 1..Len(resultBytes) |->
                                  255 - resultBytes[i]]], <<1>>)),
             err |-> NoErr]
       ELSE [value |-> SetBytes(resultBytes), err |-> NoErr]

\* a faulty variant of lines 30-34: nil instead of the amount on failure
TransferSimResultNilOnError(amount, resultBytes, err) ==
  IF err # NoErr
  THEN [value |-> NilInt, err |-> err]
  ELSE [value |-> SetBytes(resultBytes), err |-> NoErr]

\* a faulty variant of lines 30-34: the bytes read as little-endian
TransferSimResultLittleEndian(amount, resultBytes, err) ==
  IF err # NoErr
  THEN [value |-> Set(amount), err |-> err]
  ELSE [value |->
          SetBytes([i \in 1..Len(resultBytes) |->
                      resultBytes[Len(resultBytes) + 1 - i]]),
        err |-> NoErr]

\* lines 30-34: what TransferSim returns for the outcome of the call
TransferSimResult(amount, resultBytes, err) ==
  IF err # NoErr
  THEN [value |-> Set(amount), err |-> err]
  ELSE [value |-> SetBytes(resultBytes), err |-> NoErr]

(***************************************************************************)
(* src/transfersim.go (the root package).                                  *)
(***************************************************************************)
\* a nil pointer or map, and a pointer to v
None == <<>>

Some(v) == <<v>>

OneE18 == BigNat(OneE18Bytes) \* big.NewInt(1e18)

\* getMockReceiverBytecode(): hex.DecodeString, its error dropped
getMockReceiverBytecode == DecodeString(bytecodeHex).bytes

\* StateOverride{to: OverrideAccount{Code: &mockContractCode}}
StateOverride(to, code) ==
  [a \in {to} |->
     [nonce |-> None, code |-> Some(code), balance |-> None,
      state |-> None, stateDiff |-> None]]

\* big.Int.Text(16) without sign, as hexutil.EncodeBig and BigInt.toString(16)
\* print a magnitude: no leading zero digit, "0" for zero
HexOfMagnitude(b) ==
  IF b = <<>> THEN <<"0">>
  ELSE LET digits == [i \in 1..(2 * Len(b)) |->
                        IF i % 2 = 1
                        THEN HexDigits[(b[(i + 1) \div 2] \div 16) + 1]
                        ELSE HexDigits[(b[i \div 2] % 16) + 1]]
       IN IF digits[1] = "0" THEN SubSeq(digits, 2, Len(digits)) ELSE digits

\* hexutil.EncodeBig
EncodeBig(x) ==
  (IF x.neg THEN <<"-", "0", "x">> ELSE <<"0", "x">>) \o HexOfMagnitude(x.abs)

\* the arguments callContractWithStateOverride gives to CallContext
callContractWithStateOverride(to, data, blockNumber, overrides) ==
  [method |-> "eth_call",
   call |-> [from |-> None, to |-> to, gas |-> None, gasPrice |-> None,
             maxFeePerGas |-> None, maxPriorityFeePerGas |-> None,
             value |-> None, data |-> Some(data)],
   block |-> IF blockNumber = None THEN <<"latest">>
             ELSE EncodeBig(blockNumber[1]),
   overrides |-> overrides]

\* a faulty variant of lines 60-72: the division before the multiplication
RootTransferSimResultDivFirst(amount, resultBytes, err) ==
  IF err # NoErr
  THEN [value |-> NilInt, err |-> err, panic |-> FALSE]
  ELSE IF amount.abs = <<>>
       THEN [value |-> NilInt, err |-> NoErr, panic |-> TRUE]
       ELSE [value |-> Mul(Div(SetBytes(resultBytes), amount), OneE18),
             err |-> NoErr, panic |-> FALSE]

\* lines 60-72: the outcome of TransferSim for the outcome of the call;
\* ratio.Div panics on a zero amount
RootTransferSimResult(amount, resultBytes, err) ==
  IF err # NoErr
  THEN [value |-> NilInt, err |-> err, panic |-> FALSE]
  ELSE IF amount.abs = <<>>
       THEN [value |-> NilInt, err |-> NoErr, panic |-> TRUE]
       ELSE [value |-> Div(Mul(SetBytes(resultBytes), OneE18), amount),
             err |-> NoErr, panic |-> FALSE]

(***************************************************************************)
(* src/js/transfer-sim.js.  A JavaScript value is a record [type, str,     *)
(* big]: a string carries its characters in str, a bigint or a number its  *)
(* integer value in big (a number that is no safe integer has type         *)
(* "unsafe number").                                                       *)
(***************************************************************************)
JSString(chars) == [type |-> "string", str |-> chars, big |-> NilInt]

JSBigInt(x) == [type |-> "bigint", str |-> <<>>, big |-> x]

JSNumber(x) == [type |-> "number", str |-> <<>>, big |-> x]

JSUnsafeNumber == [type |-> "unsafe number", str |-> <<>>, big |-> NilInt]

JSUndefined == [type |-> "undefined", str |-> <<>>, big |-> NilInt]

\* the outcome of a step that returns a value or throws
Returned(v) == [value |-> v, error |-> NoErr]

Thrown(e) == [value |-> JSUndefined, error |-> e]

\* const mockReceiverBytecode = "0x6080..."
jsMockReceiverBytecode == <<"0", "x">> \o bytecodeHex

\* strip0x(hex)
strip0x(hex) ==
  IF hex.type # "string" THEN <<>>
  ELSE IF Has0xPrefix(hex.str) THEN SubSeq(hex.str, 3, Len(hex.str))
       ELSE hex.str

\* String.prototype.toLowerCase on the characters of a hex string
toLowerCase(chars) ==
  [i \in 1..Len(chars) |->
     IF \E k \in 1..16 : HexDigitsUpper[k] = chars[i]
     THEN HexDigits[CHOOSE k \in 1..16 : HexDigitsUpper[k] = chars[i]]
     ELSE chars[i]]

\* a faulty variant of normalizeAddress without the length test of line 16
normalizeAddressAnyLength(addr, name) ==
  IF addr.type # "string" \/ ~(\A i \in 1..Len(strip0x(addr)) :
                                 IsHexChar(strip0x(addr)[i]))
  THEN Thrown("must be a hex string")
  ELSE Returned(JSString(<<"0", "x">> \o toLowerCase(strip0x(addr))))

\* normalizeAddress(addr, name)
normalizeAddress(addr, name) ==
  IF addr.type # "string"
  THEN Thrown(IF name = "token" THEN "token must be a hex string"
              ELSE IF name = "from" THEN "from must be a hex string"
              ELSE "to must be a hex string")
  ELSE IF Len(strip0x(addr)) # 40
          \/ ~(\A i \in 1..Len(strip0x(addr)) : IsHexChar(strip0x(addr)[i]))
       THEN Thrown(IF name = "token" THEN "token must be a 20-byte hex address"
                   ELSE IF name = "from"
                        THEN "from must be a 20-byte hex address"
                        ELSE "to must be a 20-byte hex address")
       ELSE Returned(JSString(<<"0", "x">> \o toLowerCase(strip0x(addr))))

\* a faulty variant of pad32: zeros after the digits
pad32PadEnd(hex) == strip0x(hex) \o Fill(64 - Len(strip0x(hex)), "0")

\* pad32(hex): String.prototype.padStart(64, "0") leaves a longer string as
\* it is
pad32(hex) ==
  IF Len(strip0x(hex)) >= 64 THEN strip0x(hex)
  ELSE [i \in 1..(64 - Len(strip0x(hex))) |-> "0"] \o strip0x(hex)

DecDigits == <<"0", "1", "2", "3", "4", "5", "6", "7", "8", "9">>

IsDecChar(c) == \E i \in 1..10 : DecDigits[i] = c

DecVal(c) == (CHOOSE i \in 1..10 : DecDigits[i] = c) - 1

\* the value of the decimal digits s, acc being the value of the first
\* j - 1 of them
ParseDecLoop[s \in Seq(STRING), j \in Nat, acc \in Magnitudes] ==
  IF j > Len(s) THEN acc
  ELSE ParseDecLoop[s, j + 1,
                    NatAdd(NatMulWord(acc, 10), Strip[<<DecVal(s[j])>>])]

\* the value of the hex digits s: a leading digit is added when their
\* number is odd
ParseHex(s) ==
  StripLeadingZeros[
    DecodeString(IF Len(s) % 2 = 1 THEN <<"0">> \o s ELSE s).bytes]

\* BigInt(value) for a string (StringToBigInt: the empty string is 0n, a
\* 0x literal needs a digit, decimal digits otherwise), a bigint, a number
\* and undefined; the strings of the model carry no sign and no space
BigInt(v) ==
  IF v.type = "bigint" \/ v.type = "number" THEN Returned(JSBigInt(v.big))
  ELSE IF v.type = "unsafe number"
  THEN Thrown("RangeError: not an integer")
  ELSE IF v.type # "string" THEN Thrown("TypeError: Cannot convert to a BigInt")
  ELSE IF v.str = <<>> THEN Returned(JSBigInt(BigNat(<<>>)))
  ELSE IF Has0xPrefix(v.str)
  THEN IF Len(v.str) > 2 /\ \A i \in 3..Len(v.str) : IsHexChar(v.str[i])
       THEN Returned(JSBigInt(BigNat(ParseHex(SubSeq(v.str, 3, Len(v.str))))))
       ELSE Thrown("SyntaxError: Cannot convert to a BigInt")
  ELSE IF \A i \in 1..Len(v.str) : IsDecChar(v.str[i])
       THEN Returned(JSBigInt(BigNat(ParseDecLoop[v.str, 1, <<>>])))
       ELSE Thrown("SyntaxError: Cannot convert to a BigInt")

\* toBigIntAmount(amount)
toBigIntAmount(amount) ==
  IF amount.type = "bigint" THEN Returned(amount)
  ELSE IF amount.type = "unsafe number"
  THEN Thrown("amount must be a safe integer or bigint")
  ELSE IF amount.type = "number" \/ amount.type = "string" THEN BigInt(amount)
  ELSE Thrown("unsupported amount type")

\* BigInt.prototype.toString(16)
toString16(x) ==
  (IF x.neg THEN <<"-">> ELSE <<>>) \o HexOfMagnitude(x.abs)

\* amountToHex(amount)
amountToHex(amount) ==
  IF toBigIntAmount(amount).error # NoErr THEN toBigIntAmount(amount)
  ELSE Returned(JSString(toString16(toBigIntAmount(amount).value.big)))

\* buildMockCallData(token, from, amount) of the Node.js translation
jsBuildMockCallData(token, from, amount) ==
  IF normalizeAddress(token, "token").error # NoErr
  THEN normalizeAddress(token, "token")
  ELSE IF normalizeAddress(from, "from").error # NoErr
  THEN normalizeAddress(from, "from")
  ELSE IF amountToHex(amount).error # NoErr THEN amountToHex(amount)
  ELSE Returned(JSString(
         <<"0", "x">>
           \o pad32(normalizeAddress(token, "token").value)
           \o pad32(normalizeAddress(from, "from").value)
           \o pad32(JSString(<<"0", "x">> \o amountToHex(amount).value.str))))

\* A provider is a record [kind, currentProvider, provider]: kind names the
\* method it offers ("request", "sendAsync", "send", "none"), "web3" an
\* object that wraps one, "null" no object at all.
JSProvider(kind) == [kind |-> kind, currentProvider |-> None, provider |-> None]

\* transferSim, lines 92-94
providerOf(web3OrProvider) ==
  IF web3OrProvider.kind = "null" THEN web3OrProvider
  ELSE IF web3OrProvider.currentProvider # None
  THEN web3OrProvider.currentProvider[1]
  ELSE IF web3OrProvider.provider # None THEN web3OrProvider.provider[1]
  ELSE web3OrProvider

\* rpcRequest(provider, method, params): whether a request goes out, and
\* the rejection when none does
rpcRequest(provider) ==
  IF provider.kind = "null" THEN [sent |-> FALSE, error |-> "missing provider"]
  ELSE IF provider.kind \in {"request", "sendAsync", "send"}
  THEN [sent |-> TRUE, error |-> NoErr]
  ELSE [sent |-> FALSE, error |-> "provider does not support request/send"]

\* transferSim, lines 96-103: the call object and the overrides, or the
\* error thrown while building them
jsRequest(token, from, to, amount) ==
  IF normalizeAddress(to, "to").error # NoErr
  THEN [error |-> normalizeAddress(to, "to").error, request |-> <<>>]
  ELSE IF jsBuildMockCallData(token, from, amount).error # NoErr
  THEN [error |-> jsBuildMockCallData(token, from, amount).error,
        request |-> <<>>]
  ELSE [error |-> NoErr,
        request |->
          [method |-> "eth_call",
           call |-> [to |-> normalizeAddress(to, "to").value.str,
                     data |-> jsBuildMockCallData(token, from, amount).value.str],
           block |-> <<"latest">>,
           overrides |->
             [a \in {normalizeAddress(to, "to").value.str} |->
                [code |-> jsMockReceiverBytecode]]]]

\* a faulty variant of lines 105-110: 0n instead of the amount in the
\* catch block
transferSimResultZeroOnError(amount, result, err) ==
  IF err = NoErr /\ BigInt(result).error = NoErr
  THEN [received |-> BigInt(result).value.big, error |-> NoErr]
  ELSE [received |-> BigNat(<<>>),
        error |-> IF err # NoErr THEN err ELSE BigInt(result).error]

\* transferSim, lines 105-110: what it resolves to for the settled request
transferSimResult(amount, result, err) ==
  IF err = NoErr /\ BigInt(result).error = NoErr
  THEN [received |-> BigInt(result).value.big, error |-> NoErr]
  ELSE [received |-> toBigIntAmount(amount).value.big,
        error |-> IF err # NoErr THEN err ELSE BigInt(result).error]

(***************************************************************************)
(* Inputs of the Node.js translation.                                      *)
(***************************************************************************)
\* encoding of bytes as hex text, in lower and in upper case
EncodeToString(b, digits) ==
  [i \in 1..(2 * Len(b)) |->
     IF i % 2 = 1 THEN digits[(b[(i + 1) \div 2] \div 16) + 1]
     ELSE digits[(b[i \div 2] % 16) + 1]]

AddrAB == Fill(AddressLength, 171) \* 0xabab...ab

\* a lower-case address, an upper-case one behind 0X, one of 19 bytes, 40
\* characters that are not all hex digits, and a value that is no string
JSAddresses ==
  {JSString(<<"0", "x">> \o EncodeToString(Addr11, HexDigits)),
   JSString(<<"0", "X">> \o EncodeToString(AddrAB, HexDigitsUpper)),
   JSString(<<"0", "x">> \o EncodeToString(Fill(AddressLength - 1, 17), HexDigits)),
   JSString(Fill(2 * AddressLength - 1, "1") \o <<"g">>),
   JSUndefined}

JSAmounts ==
  {JSBigInt(BigNat(b)) : b \in {<<>>, <<18, 52>>, Fill(WordLen, 255)}
                                 \cup OverflowMagnitudes}
    \cup {JSBigInt(BigNeg(<<1>>)), JSNumber(BigNat(<<100>>)), JSUnsafeNumber,
          JSString(<<"1", "0", "0", "0">>), JSString(<<"0", "x", "1", "0">>),
          JSString(<<"a", "b", "c">>), JSUndefined}

JSClients ==
  {JSProvider("null"), JSProvider("request"), JSProvider("send"),
   JSProvider("none"),
   [kind |-> "web3", currentProvider |-> Some(JSProvider("sendAsync")),
    provider |-> None]}

\* how the provider settles the request: with the result of the JSON-RPC
\* response (a hex string, or nothing), or with an error
JSResults ==
  {[result |-> JSString(<<"0", "x">> \o EncodeToString(b, HexDigits)),
    err |-> NoErr] : b \in ResultBytes}
    \cup {[result |-> JSUndefined, err |-> NoErr]}
    \cup {[result |-> JSUndefined, err |-> e] : e \in Errors}

(***************************************************************************)
(* The state machine.  A caller invokes one of the three implementations;  *)
(* the invocation builds its request and hands it to the RPC client (Call),*)
(* the client comes back with the node's answer or an error (CallContext,  *)
(* rpcSettle), and the invocation returns (Return).                        *)
(***************************************************************************)
NoArgs == [token |-> <<>>, from |-> <<>>, to |-> <<>>, amount |-> NilInt]

NoRequest == [method |-> "", call |-> [to |-> <<>>, data |-> <<>>],
              block |-> <<>>, overrides |-> <<>>]

NoResponse == [bytes |-> <<>>, err |-> NoErr]

NoReturn == [value |-> NilInt, err |-> NoErr]

\* the objects of a caller: the big.Int its amount points to, the big.Int
\* TransferSim allocated for its result, and which of the two the returned
\* pointer designates
NoObjects == [amount |-> NilInt, result |-> NilInt, ret |-> "none"]

Callers == {1}

InitFor(callers) ==
  /\ mockReceiverBytecode = MustDecode(goBytecodeLiteral).bytes
  /\ pc = [p \in callers |-> "idle"]
  /\ impl = [p \in callers |-> "none"]
  /\ args = [p \in callers |-> NoArgs]
  /\ request = [p \in callers |-> NoRequest]
  /\ calls = [p \in callers |-> 0]
  /\ pending = [p \in callers |-> 0]
  /\ response = [p \in callers |-> NoResponse]
  /\ ret = [p \in callers |-> NoReturn]
  /\ heap = [p \in callers |-> NoObjects]
  /\ history = {}

Init == InitFor(Callers)

\* a caller invokes when it has no invocation in progress
CanInvoke(p) == pc[p] = "idle"

\* a faulty variant of lines 24-29: the destination is written into the
\* shared probe code in place
TransferSimCallPatchingCode(p, token, from, to, amount) ==
  /\ CanInvoke(p)
  /\ impl' = [impl EXCEPT ![p] = "go"]
  /\ args' = [args EXCEPT ![p] =
       [token |-> token, from |-> from, to |-> to, amount |-> amount]]
  /\ mockReceiverBytecode' =
       to \o SubSeq(mockReceiverBytecode, Len(to) + 1,
                    Len(mockReceiverBytecode))
  /\ request' = [request EXCEPT ![p] =
       callWithStateOverride(to, buildMockCallData(token, from, amount),
                             stateOverride(to, mockReceiverBytecode))]
  /\ calls' = [calls EXCEPT ![p] = calls[p] + 1]
  /\ pending' = [pending EXCEPT ![p] = pending[p] + 1]
  /\ pc' = [pc EXCEPT ![p] = "waiting"]
  /\ heap' = [heap EXCEPT ![p] =
       [amount |-> amount, result |-> NilInt, ret |-> "none"]]
  /\ UNCHANGED history
  /\ UNCHANGED <<response, ret>>

\* a faulty variant of lines 24-29: the probe code is loaded lazily and
\* is still missing in the first invocation of the process
TransferSimCallLazyCode(p, token, from, to, amount) ==
  /\ CanInvoke(p)
  /\ impl' = [impl EXCEPT ![p] = "go"]
  /\ args' = [args EXCEPT ![p] =
       [token |-> token, from |-> from, to |-> to, amount |-> amount]]
  /\ request' = [request EXCEPT ![p] =
       callWithStateOverride(
         to, buildMockCallData(token, from, amount),
         stateOverride(to, IF history = {} THEN <<>>
                           ELSE mockReceiverBytecode))]
  /\ calls' = [calls EXCEPT ![p] = calls[p] + 1]
  /\ pending' = [pending EXCEPT ![p] = pending[p] + 1]
  /\ pc' = [pc EXCEPT ![p] = "waiting"]
  /\ heap' = [heap EXCEPT ![p] =
       [amount |-> amount, result |-> NilInt, ret |-> "none"]]
  /\ UNCHANGED history
  /\ UNCHANGED <<mockReceiverBytecode, response, ret>>

\* TransferSim, lines 24-29: build the call data and the override and
\* enter callWithStateOverride, which issues the request
TransferSimCall(p, token, from, to, amount) ==
  /\ CanInvoke(p)
  /\ impl' = [impl EXCEPT ![p] = "go"]
  /\ args' = [args EXCEPT ![p] =
       [token |-> token, from |-> from, to |-> to, amount |-> amount]]
  /\ request' = [request EXCEPT ![p] =
       callWithStateOverride(to, buildMockCallData(token, from, amount),
                             stateOverride(to, mockReceiverBytecode))]
  /\ calls' = [calls EXCEPT ![p] = calls[p] + 1]
  /\ pending' = [pending EXCEPT ![p] = pending[p] + 1]
  /\ pc' = [pc EXCEPT ![p] = "waiting"]
  /\ heap' = [heap EXCEPT ![p] =
       [amount |-> amount, result |-> NilInt, ret |-> "none"]]
  /\ UNCHANGED history
  /\ UNCHANGED <<mockReceiverBytecode, response, ret>>

\* client.Client().CallContext returns: the node's result bytes, or an error
CallContext(p, r) ==
  /\ pc[p] = "waiting"
  /\ impl[p] \in {"go", "root"}
  /\ response' = [response EXCEPT ![p] = r]
  /\ pending' = [pending EXCEPT ![p] = pending[p] - 1]
  /\ pc' = [pc EXCEPT ![p] = "responded"]
  /\ UNCHANGED <<heap, history>>
  /\ UNCHANGED <<mockReceiverBytecode, impl, args, request, calls, ret>>

\* a faulty variant of lines 30-34: a failed call is issued once more
TransferSimReturnRetry(p) ==
  /\ pc[p] = "responded"
  /\ impl[p] = "go"
  /\ IF response[p].err # NoErr /\ calls[p] < 2
     THEN /\ calls' = [calls EXCEPT ![p] = calls[p] + 1]
          /\ pending' = [pending EXCEPT ![p] = pending[p] + 1]
          /\ pc' = [pc EXCEPT ![p] = "waiting"]
          /\ UNCHANGED <<ret, heap>>
     ELSE /\ ret' = [ret EXCEPT ![p] =
               TransferSimResult(heap[p].amount, response[p].bytes,
                                 response[p].err)]
          /\ heap' = [heap EXCEPT ![p].result = ret'[p].value,
                                  ![p].ret = "result"]
          /\ pc' = [pc EXCEPT ![p] = "done"]
          /\ UNCHANGED <<calls, pending>>
  /\ UNCHANGED history
  /\ UNCHANGED <<mockReceiverBytecode, impl, args, request, response>>

\* a faulty variant of lines 29-34: resultBytes and err are shared by the
\* invocations in progress, so that one may read what another received
TransferSimReturnShared(p) ==
  /\ pc[p] = "responded"
  /\ impl[p] = "go"
  /\ \E q \in DOMAIN pc :
       /\ pc[q] \in {"responded", "done"}
       /\ impl[q] = "go"
       /\ ret' = [ret EXCEPT ![p] =
            TransferSimResult(heap[p].amount, response[q].bytes,
                              response[q].err)]
  /\ heap' = [heap EXCEPT ![p].result = ret'[p].value, ![p].ret = "result"]
  /\ pc' = [pc EXCEPT ![p] = "done"]
  /\ UNCHANGED history
  /\ UNCHANGED <<mockReceiverBytecode, impl, args, request, calls, pending,
                 response>>

\* a faulty variant of lines 30-32: on an error the caller's own amount
\* object is returned instead of a copy of it
TransferSimReturnAliased(p) ==
  /\ pc[p] = "responded"
  /\ impl[p] = "go"
  /\ ret' = [ret EXCEPT ![p] =
       TransferSimResult(heap[p].amount, response[p].bytes, response[p].err)]
  /\ heap' = IF response[p].err # NoErr
             THEN [heap EXCEPT ![p].ret = "amount"]
             ELSE [heap EXCEPT ![p].result = ret'[p].value, ![p].ret = "result"]
  /\ pc' = [pc EXCEPT ![p] = "done"]
  /\ UNCHANGED history
  /\ UNCHANGED <<mockReceiverBytecode, impl, args, request, calls, pending,
                 response>>

\* TransferSim, lines 30-34: amount is read through the caller's pointer,
\* and the value returned is a big.Int allocated here
TransferSimReturn(p) ==
  /\ pc[p] = "responded"
  /\ impl[p] = "go"
  /\ ret' = [ret EXCEPT ![p] =
       TransferSimResult(heap[p].amount, response[p].bytes, response[p].err)]
  /\ heap' = [heap EXCEPT ![p].result = ret'[p].value, ![p].ret = "result"]
  /\ pc' = [pc EXCEPT ![p] = "done"]
  /\ UNCHANGED history
  /\ UNCHANGED <<mockReceiverBytecode, impl, args, request, calls, pending,
                 response>>

\* root TransferSim, lines 39-59: the override, the call data, and the
\* request issued by callContractWithStateOverride
RootTransferSimCall(p, token, from, to, amount) ==
  /\ CanInvoke(p)
  /\ impl' = [impl EXCEPT ![p] = "root"]
  /\ args' = [args EXCEPT ![p] =
       [token |-> token, from |-> from, to |-> to, amount |-> amount]]
  /\ request' = [request EXCEPT ![p] =
       callContractWithStateOverride(
         Some(to),
         LeftPadBytes(token, WordLen)
           \o LeftPadBytes(from, WordLen)
           \o LeftPadBytes(Bytes(amount), WordLen),
         None,
         StateOverride(to, getMockReceiverBytecode))]
  /\ calls' = [calls EXCEPT ![p] = calls[p] + 1]
  /\ pending' = [pending EXCEPT ![p] = pending[p] + 1]
  /\ pc' = [pc EXCEPT ![p] = "waiting"]
  /\ UNCHANGED <<heap, history>>
  /\ UNCHANGED <<mockReceiverBytecode, response, ret>>

\* root TransferSim, lines 60-72: the division panics when amount is zero
RootTransferSimReturn(p) ==
  /\ pc[p] = "responded"
  /\ impl[p] = "root"
  /\ ret' = [ret EXCEPT ![p] =
       RootTransferSimResult(args[p].amount, response[p].bytes,
                             response[p].err)]
  /\ pc' = [pc EXCEPT ![p] = IF ret'[p].panic THEN "panicked" ELSE "done"]
  /\ UNCHANGED <<heap, history>>
  /\ UNCHANGED <<mockReceiverBytecode, impl, args, request, calls, pending,
                 response>>

\* transferSim, lines 91-104: an argument that is refused rejects the
\* promise before anything is sent; a provider that cannot send makes
\* rpcRequest reject, which the catch block turns into a result; otherwise
\* the request goes out
transferSimCall(p, web3OrProvider, token, from, to, amount) ==
  /\ CanInvoke(p)
  /\ impl' = [impl EXCEPT ![p] = "js"]
  /\ args' = [args EXCEPT ![p] =
       [provider |-> web3OrProvider, token |-> token, from |-> from,
        to |-> to, amount |-> amount]]
  /\ IF jsRequest(token, from, to, amount).error # NoErr
     THEN /\ pc' = [pc EXCEPT ![p] = "rejected"]
          /\ ret' = [ret EXCEPT ![p] =
               [received |-> NilInt,
                error |-> jsRequest(token, from, to, amount).error]]
          /\ UNCHANGED <<request, calls, pending>>
     ELSE IF ~rpcRequest(providerOf(web3OrProvider)).sent
     THEN /\ pc' = [pc EXCEPT ![p] = "done"]
          /\ ret' = [ret EXCEPT ![p] =
               transferSimResult(amount, JSUndefined,
                                 rpcRequest(providerOf(web3OrProvider)).error)]
          /\ UNCHANGED <<request, calls, pending>>
     ELSE /\ pc' = [pc EXCEPT ![p] = "waiting"]
          /\ request' = [request EXCEPT ![p] =
               jsRequest(token, from, to, amount).request]
          /\ calls' = [calls EXCEPT ![p] = calls[p] + 1]
          /\ pending' = [pending EXCEPT ![p] = pending[p] + 1]
          /\ UNCHANGED ret
  /\ UNCHANGED <<heap, history>>
  /\ UNCHANGED <<mockReceiverBytecode, response>>

\* rpcRequest, lines 59-88: the promise of the request settles
rpcSettle(p, r) ==
  /\ pc[p] = "waiting"
  /\ impl[p] = "js"
  /\ response' = [response EXCEPT ![p] = r]
  /\ pending' = [pending EXCEPT ![p] = pending[p] - 1]
  /\ pc' = [pc EXCEPT ![p] = "responded"]
  /\ UNCHANGED <<heap, history>>
  /\ UNCHANGED <<mockReceiverBytecode, impl, args, request, calls, ret>>

\* transferSim, lines 105-110
transferSimReturn(p) ==
  /\ pc[p] = "responded"
  /\ impl[p] = "js"
  /\ ret' = [ret EXCEPT ![p] =
       transferSimResult(args[p].amount, response[p].result, response[p].err)]
  /\ pc' = [pc EXCEPT ![p] = "done"]
  /\ UNCHANGED <<heap, history>>
  /\ UNCHANGED <<mockReceiverBytecode, impl, args, request, calls, pending,
                 response>>

\* what the root package is invoked with
RootAmounts ==
  {BigNat(b) : b \in {<<>>, <<1>>, <<100>>, <<18, 52>>, OneE18Bytes,
                       TwoE18Bytes}}
    \cup {BigNeg(<<1>>)}

RootCalls ==
  {<<Addr11, Addr22, Addr01>>, <<Addr22, Addr11, Addr11>>,
   <<Addr01, Addr01, Addr22>>}

Next ==
  \/ \E p \in DOMAIN pc, token, from, to \in Addresses, amount \in Amounts :
       TransferSimCall(p, token, from, to, amount)
  \/ \E p \in DOMAIN pc, r \in CallResults : CallContext(p, r)
  \/ \E p \in DOMAIN pc : TransferSimReturn(p)
  \/ \E p \in DOMAIN pc, c \in RootCalls, amount \in RootAmounts :
       RootTransferSimCall(p, c[1], c[2], c[3], amount)
  \/ \E p \in DOMAIN pc : RootTransferSimReturn(p)
  \/ \E p \in DOMAIN pc, w \in JSClients, token, from, to \in JSAddresses,
        amount \in JSAmounts :
       transferSimCall(p, w, token, from, to, amount)
  \/ \E p \in DOMAIN pc, r \in JSResults : rpcSettle(p, r)
  \/ \E p \in DOMAIN pc : transferSimReturn(p)

Spec == Init /\ [][Next]_vars

(***************************************************************************)
(* Repeated and concurrent invocations: two callers, each invoking again   *)
(* once it has taken the result of its previous invocation.  history       *)
(* keeps what every finished invocation was given, sent, received and      *)
(* returned.                                                               *)
(***************************************************************************)
ManyCallers == {1, 2}

InitMany == InitFor(ManyCallers)

\* the caller takes the result (received, callErr) and is free to invoke
\* again
CallerTakesResult(p) ==
  /\ pc[p] \in {"done", "panicked", "rejected"}
  /\ history' = history \cup
       {[impl |-> impl[p], args |-> args[p], request |-> request[p],
         response |-> response[p], ret |-> ret[p]]}
  /\ pc' = [pc EXCEPT ![p] = "idle"]
  /\ impl' = [impl EXCEPT ![p] = "none"]
  /\ args' = [args EXCEPT ![p] = NoArgs]
  /\ request' = [request EXCEPT ![p] = NoRequest]
  /\ calls' = [calls EXCEPT ![p] = 0]
  /\ pending' = [pending EXCEPT ![p] = 0]
  /\ response' = [response EXCEPT ![p] = NoResponse]
  /\ ret' = [ret EXCEPT ![p] = NoReturn]
  /\ heap' = [heap EXCEPT ![p] = NoObjects]
  /\ UNCHANGED mockReceiverBytecode

\* the arguments of the repeated invocations: token, from, to, amount
RepeatedCalls ==
  {<<Addr11, Addr22, Addr01, BigNat(<<18, 52>>)>>,
   <<Addr11, Addr22, Addr11, BigNat(OneE18Bytes)>>}

RepeatedRootCalls == {<<Addr22, Addr11, Addr01, BigNat(<<100>>)>>}

\* the answers of the node: a received amount, or an error
RepeatedResults ==
  {[bytes |-> LeftPadBytes(<<18, 52>>, WordLen), err |-> NoErr],
   [bytes |-> <<>>, err |-> "execution reverted"]}

NextMany ==
  \/ \E p \in DOMAIN pc, c \in RepeatedCalls :
       TransferSimCall(p, c[1], c[2], c[3], c[4])
  \/ \E p \in DOMAIN pc, r \in RepeatedResults : CallContext(p, r)
  \/ \E p \in DOMAIN pc : TransferSimReturn(p)
  \/ \E p \in DOMAIN pc, c \in RepeatedRootCalls :
       RootTransferSimCall(p, c[1], c[2], c[3], c[4])
  \/ \E p \in DOMAIN pc : RootTransferSimReturn(p)
  \/ \E p \in DOMAIN pc : CallerTakesResult(p)

SpecMany == InitMany /\ [][NextMany]_vars

(***************************************************************************)
(* The caller's objects.  TransferSim takes a pointer to the caller's      *)
(* amount and returns a pointer; heap keeps the value of the amount object *)
(* and of the object TransferSim allocates, and which of the two the       *)
(* returned pointer designates.  After the return the caller may change    *)
(* either value through the pointer it holds.                              *)
(***************************************************************************)
\* the values a caller writes
CallerValues == {BigNat(<<7>>), BigNat(Fill(WordLen, 255))}

\* the value behind the pointer TransferSim returned to p
Received(h) == IF h.ret = "amount" THEN h.amount ELSE h.result

\* the caller changes the value it received, in place (received.Set(v))
CallerChangesReceived(p, v) ==
  /\ pc[p] = "done"
  /\ impl[p] = "go"
  /\ heap[p].ret # "none"
  /\ heap' = IF heap[p].ret = "amount"
             THEN [heap EXCEPT ![p].amount = v]
             ELSE [heap EXCEPT ![p].result = v]
  /\ UNCHANGED <<mockReceiverBytecode, pc, impl, args, request, calls,
                 pending, response, ret, history>>

\* the caller changes its amount, in place (amount.Set(v))
CallerChangesAmount(p, v) ==
  /\ pc[p] = "done"
  /\ impl[p] = "go"
  /\ heap' = [heap EXCEPT ![p].amount = v]
  /\ UNCHANGED <<mockReceiverBytecode, pc, impl, args, request, calls,
                 pending, response, ret, history>>

\* the destinations the caller invokes with
CallerCalls == {<<Addr11, Addr22, Addr01>>, <<Addr11, Addr22, Addr11>>}

NextCaller ==
  \/ \E p \in DOMAIN pc, c \in CallerCalls, amount \in Amounts :
       TransferSimCall(p, c[1], c[2], c[3], amount)
  \/ \E p \in DOMAIN pc, r \in CallResults : CallContext(p, r)
  \/ \E p \in DOMAIN pc : TransferSimReturn(p)
  \/ \E p \in DOMAIN pc, v \in CallerValues : CallerChangesReceived(p, v)
  \/ \E p \in DOMAIN pc, v \in CallerValues : CallerChangesAmount(p, v)

SpecCaller == Init /\ [][NextCaller]_vars

(***************************************************************************)
(* The properties.                                                         *)
(***************************************************************************)
\* the invocation of p has come back to its caller
HasReturned(p) == pc[p] \in {"done", "panicked", "rejected"}

\* the probe bytecode, decoded from its hex text
ProbeBytecode == DecodeString(bytecodeHex).bytes

\* b is a big-endian encoding of the non-negative x: zero bytes, then the
\* magnitude of x
IsBigEndianOf(b, x) ==
  /\ ~x.nil
  /\ ~x.neg
  /\ x.abs = <<>> \/ x.abs[1] # 0
  /\ Len(x.abs) <= Len(b)
  /\ b = Fill(Len(b) - Len(x.abs), 0) \o x.abs

\* the call data of the request of p, in the Go implementations
DataOf(p) ==
  IF impl[p] = "root" THEN request[p].call.data[1] ELSE request[p].call.data

\* C1: in src/go, when callWithStateOverride returns an error, TransferSim
\* returns that very error and a non-nil value numerically equal to the
\* amount it was given.
C1_FailureReturnsAmountAndError ==
  \A p \in DOMAIN pc :
    (impl[p] = "go" /\ pc[p] = "done" /\ response[p].err # NoErr) =>
      /\ ret[p].err = response[p].err
      /\ ~ret[p].value.nil
      /\ ret[p].value.neg = args[p].amount.neg
      /\ ret[p].value.abs = args[p].amount.abs

C1_Witness ==
  \E p \in DOMAIN pc :
    /\ impl[p] = "go" /\ pc[p] = "done"
    /\ response[p].err = "execution reverted"
    /\ args[p].amount = BigNat(Fill(WordLen, 255))
    /\ ret[p].value.abs = Fill(WordLen, 255)

\* C2: in src/go, TransferSim returns a nil error exactly when the call
\* returned none; the value is then the returned bytes read as a big-endian
\* unsigned integer, and otherwise the amount with the error of the call.
C2_SuccessReturnsBigEndianDelta ==
  \A p \in DOMAIN pc :
    (impl[p] = "go" /\ pc[p] = "done") =>
      /\ (ret[p].err = NoErr) <=> (response[p].err = NoErr)
      /\ response[p].err = NoErr =>
           IsBigEndianOf(response[p].bytes, ret[p].value)
      /\ response[p].err # NoErr =>
           /\ ret[p].err = response[p].err
           /\ ret[p].value = args[p].amount

C2_Witness ==
  \E p \in DOMAIN pc :
    /\ impl[p] = "go" /\ pc[p] = "done"
    /\ response[p].err = NoErr
    /\ response[p].bytes = LeftPadBytes(<<18, 52>>, WordLen)
    /\ ret[p] = [value |-> BigNat(<<18, 52>>), err |-> NoErr]

\* C3: for 20-byte addresses and 0 <= amount < 2^256 the call data has 96
\* bytes: 12 zero bytes and the token, 12 zero bytes and the source, and
\* the amount as 32 big-endian bytes.
C3_CallDataLayout ==
  \A p \in DOMAIN pc :
    (/\ impl[p] \in {"go", "root"}
     /\ Len(args[p].token) = 20 /\ Len(args[p].from) = 20
     /\ ~args[p].amount.neg /\ Len(args[p].amount.abs) <= 32) =>
      /\ Len(DataOf(p)) = 96
      /\ SubSeq(DataOf(p), 1, 12) = Fill(12, 0)
      /\ SubSeq(DataOf(p), 13, 32) = args[p].token
      /\ SubSeq(DataOf(p), 33, 44) = Fill(12, 0)
      /\ SubSeq(DataOf(p), 45, 64) = args[p].from
      /\ IsBigEndianOf(SubSeq(DataOf(p), 65, 96), args[p].amount)

C3_Witness ==
  \E p \in DOMAIN pc :
    /\ impl[p] = "go" /\ pc[p] = "waiting"
    /\ args[p].token = Addr11 /\ args[p].from = Addr22
    /\ args[p].amount = BigNat(<<18, 52>>)
    /\ request[p].call.data =
         Fill(12, 0) \o Addr11 \o Fill(12, 0) \o Addr22
           \o Fill(30, 0) \o <<18, 52>>

\* C4: the override map handed to the call layer has one entry, keyed by
\* the destination, whose code is the probe bytecode and which sets no
\* other field.
C4_OverrideHasOneCodeEntry ==
  \A p \in DOMAIN pc :
    /\ impl[p] = "go" =>
         /\ DOMAIN request[p].overrides = {args[p].to}
         /\ DOMAIN request[p].overrides[args[p].to] = {"code"}
         /\ request[p].overrides[args[p].to].code = ProbeBytecode
    /\ impl[p] = "root" =>
         /\ DOMAIN request[p].overrides = {args[p].to}
         /\ request[p].overrides[args[p].to] =
              [nonce |-> None, code |-> Some(ProbeBytecode),
               balance |-> None, state |-> None, stateDiff |-> None]

C4_Witness ==
  \E p \in DOMAIN pc :
    /\ impl[p] = "go" /\ pc[p] = "waiting"
    /\ args[p].to = Addr01
    /\ Len(request[p].overrides[Addr01].code) = 533
    /\ SubSeq(request[p].overrides[Addr01].code, 1, 2) = <<96, 128>>

\* C5: the request is an eth_call of the destination with the 96-byte call
\* data and nothing else in the call object, at block "latest", with the
\* override map of the destination as third parameter.
C5_RequestShape ==
  \A p \in DOMAIN pc :
    /\ impl[p] \in {"go", "root"} =>
         /\ request[p].method = "eth_call"
         /\ request[p].block = <<"latest">>
         /\ DOMAIN request[p].overrides = {args[p].to}
         /\ Len(DataOf(p)) = 96
         /\ DataOf(p) =
              LeftPadBytes(args[p].token, 32)
                \o LeftPadBytes(args[p].from, 32)
                \o LeftPadBytes(args[p].amount.abs, 32)
    /\ impl[p] = "go" =>
         /\ DOMAIN request[p].call = {"to", "data"}
         /\ request[p].call.to = args[p].to
    /\ impl[p] = "root" =>
         /\ request[p].call.to = Some(args[p].to)
         /\ \A f \in DOMAIN request[p].call \ {"to", "data"} :
              request[p].call[f] = None

\* C6 as it stands: every invocation issues exactly one call to the node
\* and returns only when that call has settled.
C6_ExactlyOneCall ==
  \A p \in DOMAIN pc :
    /\ HasReturned(p) => calls[p] = 1 /\ pending[p] = 0
    /\ calls[p] <= 1

\* C6, amended: an invocation issues at most one call and never issues it
\* again; it returns only when no call is in flight; the Go
\* implementations issue exactly one, and so does the Node.js one unless
\* it refuses its arguments or its provider cannot send, when it issues
\* none.
C6_AtMostOneCall ==
  \A p \in DOMAIN pc :
    /\ calls[p] <= 1
    /\ HasReturned(p) => pending[p] = 0
    /\ (HasReturned(p) /\ impl[p] \in {"go", "root"}) => calls[p] = 1
    /\ (HasReturned(p) /\ impl[p] = "js") =>
         (calls[p] = 1 <=>
            /\ pc[p] = "done"
            /\ providerOf(args[p].provider).kind
                 \in {"request", "sendAsync", "send"})

C6_Witness ==
  \E p \in DOMAIN pc :
    /\ impl[p] = "js" /\ pc[p] = "done"
    /\ response[p].err = "connection refused"
    /\ calls[p] = 1 /\ pending[p] = 0
    /\ ret[p].error = "connection refused"

\* the node's answer for p carries fewer than 32 bytes, or none
IsShortResult(p) ==
  IF impl[p] = "go" THEN Len(response[p].bytes) < 32
  ELSE \/ response[p].result.type # "string"
       \/ Len(response[p].result.str) < 2 + 64

\* C7: a call that comes back without an error but with fewer than 32
\* bytes counts as failed: the result is the amount, with an error.
C7_ShortResultIsFailure ==
  \A p \in DOMAIN pc :
    (/\ impl[p] \in {"go", "js"} /\ pc[p] = "done" /\ calls[p] = 1
     /\ response[p].err = NoErr /\ IsShortResult(p)) =>
      IF impl[p] = "go"
      THEN ret[p].err # NoErr /\ ret[p].value = args[p].amount
      ELSE /\ ret[p].error # NoErr
           /\ ret[p].received = toBigIntAmount(args[p].amount).value.big

\* the amount p was invoked with is 2^256 or more
IsOverflowAmount(p) ==
  IF impl[p] = "js"
  THEN /\ args[p].amount.type = "bigint"
       /\ ~args[p].amount.big.neg
       /\ Len(args[p].amount.big.abs) > 32
  ELSE ~args[p].amount.neg /\ Len(args[p].amount.abs) > 32

\* C8: an amount of 2^256 or more is refused: no call data of more than 96
\* bytes is built or sent.
C8_OverflowAmountRejected ==
  \A p \in DOMAIN pc :
    (impl[p] # "none" /\ IsOverflowAmount(p)) =>
      /\ calls[p] = 0
      /\ IF impl[p] = "js" THEN Len(request[p].call.data) <= 2 + 192
         ELSE Len(DataOf(p)) <= 96

\* C9: amount 0 and a call that returns a zero delta: TransferSim of the
\* root package and of src/go returns normally, with a nil error and a
\* non-nil result 0.
C9_ZeroAmountReturnsZero ==
  \A p \in DOMAIN pc :
    (/\ impl[p] \in {"go", "root"} /\ HasReturned(p)
     /\ args[p].amount = BigNat(<<>>)
     /\ response[p] = [bytes |-> Fill(32, 0), err |-> NoErr]) =>
      /\ pc[p] = "done"
      /\ ret[p].err = NoErr
      /\ ret[p].value = BigNat(<<>>)

\* C10: in the root package a failed eth_call makes TransferSim return the
\* amount it was given, with the error.
C10_RootFailureReturnsAmount ==
  \A p \in DOMAIN pc :
    (impl[p] = "root" /\ HasReturned(p) /\ response[p].err # NoErr) =>
      /\ ret[p].err # NoErr
      /\ ~ret[p].value.nil
      /\ ret[p].value.neg = args[p].amount.neg
      /\ ret[p].value.abs = args[p].amount.abs

\* p is a returned invocation of the root package with amount > 0 whose
\* call succeeded
IsRatioCase(p) ==
  /\ impl[p] = "root" /\ HasReturned(p)
  /\ ~args[p].amount.neg /\ args[p].amount.abs # <<>>
  /\ response[p].err = NoErr

\* q = floor(x / a) for magnitudes, a # 0: q * a <= x < (q + 1) * a
IsFloorOf(q, x, a) ==
  /\ NatLeq(NatMul(q, a), x)
  /\ NatLess(x, NatMul(NatAdd(q, <<1>>), a))

\* the received amount r of the response of p, as a magnitude
ReceivedOf(p) == StripLeadingZeros[response[p].bytes]

\* C11 as it stands: for amount > 0 and a successful call with received
\* amount r the root package returns floor(r * 10^18 / amount), which is
\* 10^18 exactly when r = amount and less than 10^18 whenever r < amount.
C11_RatioExactIffEqual ==
  \A p \in DOMAIN pc :
    IsRatioCase(p) =>
      /\ pc[p] = "done" /\ ret[p].err = NoErr
      /\ ~ret[p].value.nil /\ ~ret[p].value.neg
      /\ IsFloorOf(ret[p].value.abs, NatMul(ReceivedOf(p), OneE18Bytes),
                   args[p].amount.abs)
      /\ (ret[p].value.abs = OneE18Bytes) <=>
           (ReceivedOf(p) = args[p].amount.abs)
      /\ NatLess(ReceivedOf(p), args[p].amount.abs) =>
           NatLess(ret[p].value.abs, OneE18Bytes)

\* C11, amended: for amount > 0 and a successful call with received
\* amount r the root package returns floor(r * 10^18 / amount), which is
\* 10^18 when r = amount, less than 10^18 exactly when r < amount, and
\* 10^18 or more when r >= amount.
C11_RatioIsFloor ==
  \A p \in DOMAIN pc :
    IsRatioCase(p) =>
      /\ pc[p] = "done" /\ ret[p].err = NoErr
      /\ ~ret[p].value.nil /\ ~ret[p].value.neg
      /\ IsFloorOf(ret[p].value.abs, NatMul(ReceivedOf(p), OneE18Bytes),
                   args[p].amount.abs)
      /\ ReceivedOf(p) = args[p].amount.abs =>
           ret[p].value.abs = OneE18Bytes
      /\ NatLess(ReceivedOf(p), args[p].amount.abs) <=>
           NatLess(ret[p].value.abs, OneE18Bytes)

\* 99 received of 100 give 0.99 * 10^18
C11_Witness ==
  \E p \in DOMAIN pc :
    /\ IsRatioCase(p)
    /\ args[p].amount = BigNat(<<100>>)
    /\ response[p].bytes = LeftPadBytes(<<99>>, WordLen)
    /\ ret[p].value = BigNat(<<13, 189, 47, 193, 55, 163, 0, 0>>)

\* the invocations that have returned: those the callers have taken and
\* those that have just come back
Finished ==
  history \cup
    {[impl |-> impl[p], args |-> args[p], request |-> request[p],
      response |-> response[p], ret |-> ret[p]] :
       p \in {q \in DOMAIN pc : HasReturned(q)}}

\* C12: two invocations of src/go TransferSim with the same token, from,
\* to and amount send the same request and, when the node gives them the
\* same response, return the same value and the same error, whatever ran
\* before or between them.
C12_Deterministic ==
  \A h1, h2 \in Finished :
    (h1.impl = "go" /\ h2.impl = "go" /\ h1.args = h2.args) =>
      /\ h1.request = h2.request
      /\ h1.response = h2.response => h1.ret = h2.ret

\* an invocation repeats an earlier one, another one having run meanwhile
C12_Witness ==
  \E h \in history, g \in history, p \in DOMAIN pc :
    /\ h.impl = "go" /\ g.impl = "go" /\ g.args # h.args
    /\ impl[p] = "go" /\ pc[p] = "done"
    /\ args[p] = h.args /\ response[p] = h.response
    /\ ret[p] = h.ret /\ ret[p].err = NoErr

\* C13: an invocation that returns a nil error returns a value that is
\* not nil and not negative, whatever bytes the node returned (src/go for
\* every amount, the root package for the amounts >= 0 it is meant for).
C13_SuccessIsNonNegative ==
  \A p \in DOMAIN pc :
    (/\ impl[p] \in {"go", "root"} /\ pc[p] = "done"
     /\ ret[p].err = NoErr
     /\ impl[p] = "root" => ~args[p].amount.neg) =>
      /\ ~ret[p].value.nil
      /\ ~ret[p].value.neg

\* 32 bytes 0xff are decoded as 2^256 - 1
C13_Witness ==
  \E p \in DOMAIN pc :
    /\ impl[p] = "go" /\ pc[p] = "done"
    /\ response[p] = [bytes |-> Fill(WordLen, 255), err |-> NoErr]
    /\ ret[p] = [value |-> BigNat(Fill(WordLen, 255)), err |-> NoErr]

\* the request src/go sends for the arguments a (an amount below 2^256)
OwnRequest(a) ==
  [method |-> "eth_call",
   call |-> [to |-> a.to,
             data |-> Fill(12, 0) \o a.token \o Fill(12, 0) \o a.from
                        \o Fill(32 - Len(a.amount.abs), 0) \o a.amount.abs],
   block |-> <<"latest">>,
   overrides |-> [t \in {a.to} |-> [code |-> ProbeBytecode]]]

\* C14: with invocations of src/go TransferSim running concurrently, each
\* one sends the request built from its own arguments and returns the
\* outcome of its own call: its own response decoded, or its own amount
\* with its own error.
C14_ConcurrentInvocationsIndependent ==
  \A p \in DOMAIN pc :
    (impl[p] = "go" /\ pc[p] # "idle") =>
      /\ request[p] = OwnRequest(args[p])
      /\ calls[p] = 1
      /\ pc[p] = "done" =>
           IF response[p].err = NoErr
           THEN /\ ret[p].err = NoErr
                /\ IsBigEndianOf(response[p].bytes, ret[p].value)
           ELSE ret[p] = [value |-> args[p].amount, err |-> response[p].err]

\* two invocations with different arguments in progress at once, one
\* returned with its error while the other holds a result
C14_Witness ==
  \E p, q \in DOMAIN pc :
    /\ p # q
    /\ impl[p] = "go" /\ impl[q] = "go"
    /\ args[p] # args[q]
    /\ pc[p] = "done" /\ pc[q] = "responded"
    /\ response[p].err = "execution reverted" /\ response[q].err = NoErr
    /\ ret[p] = [value |-> args[p].amount, err |-> "execution reverted"]

\* the code the request r of the implementation i places in the override
CodeIn(i, r) ==
  IF i = "root"
  THEN (CHOOSE c \in {r.overrides[t].code : t \in DOMAIN r.overrides} : TRUE)[1]
  ELSE CHOOSE c \in {r.overrides[t].code : t \in DOMAIN r.overrides} : TRUE

\* C15: the probe bytecode is never modified: after any invocations,
\* successful or failed, sequential or concurrent, the shared bytecode and
\* the code of every override are the initial constant, byte for byte.
C15_BytecodeNeverModified ==
  /\ mockReceiverBytecode = ProbeBytecode
  /\ \A p \in DOMAIN pc :
       (impl[p] \in {"go", "root"} /\ pc[p] # "idle") =>
         CodeIn(impl[p], request[p]) = ProbeBytecode
  /\ \A h \in history : CodeIn(h.impl, h.request) = ProbeBytecode

\* after a successful and a failed invocation, and with another one in
\* progress, a new invocation places the initial bytecode in its override
C15_Witness ==
  \E p, q \in DOMAIN pc :
    /\ p # q
    /\ \E h \in history : h.impl = "go" /\ h.ret.err = NoErr
    /\ \E h \in history : h.impl = "go" /\ h.ret.err # NoErr
    /\ \E h \in history : h.impl = "root"
    /\ impl[p] = "go" /\ pc[p] = "waiting"
    /\ impl[q] = "go" /\ pc[q] = "responded"
    /\ request[p].overrides[args[p].to].code = ProbeBytecode
    /\ Len(ProbeBytecode) = 533

\* what hex.DecodeString and hexutil.MustDecode make of the two constants
RootDecoded == DecodeString(bytecodeHex)

GoDecoded == MustDecode(goBytecodeLiteral)

\* C16: the probe bytecode of getMockReceiverBytecode and of the variable
\* mockReceiverBytecode is not empty and has at least 100 bytes: the hex
\* constant decodes without error, in full, and not to zero bytes.
C16_BytecodeDecodes ==
  /\ RootDecoded.ok
  /\ ~GoDecoded.panic
  /\ Len(getMockReceiverBytecode) >= 100
  /\ 2 * Len(getMockReceiverBytecode) = Len(bytecodeHex)
  /\ \E i \in 1..Len(getMockReceiverBytecode) :
       getMockReceiverBytecode[i] # 0
  /\ Len(mockReceiverBytecode) >= 100
  /\ 2 * Len(mockReceiverBytecode) + 2 = Len(goBytecodeLiteral)
  /\ \E i \in 1..Len(mockReceiverBytecode) : mockReceiverBytecode[i] # 0

\* the root package has placed the decoded bytecode in an override
C16_Witness ==
  \E p \in DOMAIN pc :
    /\ impl[p] = "root" /\ pc[p] = "waiting"
    /\ request[p].overrides[args[p].to].code = Some(getMockReceiverBytecode)
    /\ Len(getMockReceiverBytecode) = 533
    /\ SubSeq(getMockReceiverBytecode, 1, 4) = <<96, 128, 96, 64>>

\* v is the text of an address: 40 hex digits behind an optional 0x or 0X
IsAddressText(v) ==
  /\ v.type = "string"
  /\ \/ /\ Len(v.str) = 42
        /\ v.str[1] = "0" /\ v.str[2] \in {"x", "X"}
        /\ \A i \in 3..42 : IsHexChar(v.str[i])
     \/ /\ Len(v.str) = 40
        /\ \A i \in 1..40 : IsHexChar(v.str[i])

\* p invoked the Node.js transferSim with three addresses and an amount
\* that converts to a BigInt
IsAcceptedJSCall(p) ==
  /\ impl[p] = "js"
  /\ IsAddressText(args[p].token)
  /\ IsAddressText(args[p].from)
  /\ IsAddressText(args[p].to)
  /\ toBigIntAmount(args[p].amount).error = NoErr

\* the request of p succeeded with a result "0x" followed by hex digits
HasHexResult(p) ==
  /\ calls[p] = 1
  /\ response[p].err = NoErr
  /\ response[p].result.type = "string"
  /\ Len(response[p].result.str) > 2
  /\ response[p].result.str[1] = "0" /\ response[p].result.str[2] = "x"
  /\ \A i \in 3..Len(response[p].result.str) :
       IsHexChar(response[p].result.str[i])

\* the hex digits d without their leading zeros, "0" when all are zero
WithoutLeadingZeroDigits(d) ==
  IF \A i \in 1..Len(d) : d[i] = "0" THEN <<"0">>
  ELSE SubSeq(d, CHOOSE i \in 1..Len(d) :
                   d[i] # "0" /\ \A j \in 1..(i - 1) : d[j] = "0", Len(d))

\* C17: for valid addresses and a supported amount the Node.js transferSim
\* resolves and does not reject: to the node's hex result as an unsigned
\* integer with a null error when the request succeeds, and to the amount
\* as a BigInt with the error when the request fails or its result cannot
\* be parsed.
C17_TransferSimResolves ==
  \A p \in DOMAIN pc :
    (IsAcceptedJSCall(p) /\ HasReturned(p)) =>
      /\ pc[p] = "done"
      /\ IF HasHexResult(p)
         THEN /\ ret[p].error = NoErr
              /\ ~ret[p].received.nil /\ ~ret[p].received.neg
              /\ HexOfMagnitude(ret[p].received.abs) =
                   WithoutLeadingZeroDigits(
                     toLowerCase(SubSeq(response[p].result.str, 3,
                                        Len(response[p].result.str))))
         ELSE /\ ret[p].error # NoErr
              /\ ret[p].received = toBigIntAmount(args[p].amount).value.big
              /\ (calls[p] = 1 /\ response[p].err # NoErr) =>
                   ret[p].error = response[p].err

\* the request fails and the amount "1000" comes back as 1000n
C17_Witness ==
  \E p \in DOMAIN pc :
    /\ IsAcceptedJSCall(p) /\ pc[p] = "done"
    /\ args[p].amount = JSString(<<"1", "0", "0", "0">>)
    /\ calls[p] = 1
    /\ response[p].err = "connection refused"
    /\ ret[p] = [received |-> BigNat(<<3, 232>>),
                 error |-> "connection refused"]

\* common.HexToAddress of an address text
HexToAddress(v) == DecodeString(strip0x(v)).bytes

\* the Node.js constant, decoded as hexutil.MustDecode decodes the Go one
JSDecoded == MustDecode(jsMockReceiverBytecode)

\* the amount of a Node.js invocation is in the range of a uint256
IsWordAmount(p) ==
  /\ toBigIntAmount(args[p].amount).error = NoErr
  /\ ~toBigIntAmount(args[p].amount).value.big.neg
  /\ Len(toBigIntAmount(args[p].amount).value.big.abs) <= WordLen

\* C18: for 20-byte addresses and 0 <= amount < 2^256 the hex string of
\* the Node.js buildMockCallData decodes to exactly the 96 bytes the Go
\* buildMockCallData produces for the same inputs, and the code the
\* Node.js version puts under the destination is the Go probe bytecode.
C18_JSCallDataMatchesGo ==
  \A p \in DOMAIN pc :
    (impl[p] = "js" /\ request[p] # NoRequest /\ IsWordAmount(p)) =>
      /\ SubSeq(request[p].call.data, 1, 2) = <<"0", "x">>
      /\ DecodeString(SubSeq(request[p].call.data, 3,
                             Len(request[p].call.data))).ok
      /\ DecodeString(SubSeq(request[p].call.data, 3,
                             Len(request[p].call.data))).bytes =
           buildMockCallData(HexToAddress(args[p].token),
                             HexToAddress(args[p].from),
                             toBigIntAmount(args[p].amount).value.big)
      /\ Len(request[p].call.data) = 2 + 2 * 96
      /\ \A a \in DOMAIN request[p].overrides :
           /\ request[p].overrides[a].code = jsMockReceiverBytecode
           /\ ~JSDecoded.panic
           /\ JSDecoded.bytes = mockReceiverBytecode

\* an upper-case token address and the amount 0x1234n
C18_Witness ==
  \E p \in DOMAIN pc :
    /\ impl[p] = "js" /\ pc[p] = "waiting" /\ IsWordAmount(p)
    /\ args[p].token =
         JSString(<<"0", "X">> \o EncodeToString(AddrAB, HexDigitsUpper))
    /\ args[p].amount = JSBigInt(BigNat(<<18, 52>>))
    /\ SubSeq(request[p].call.data, 25, 30) = <<"0", "0", "a", "b", "a", "b">>
    /\ SubSeq(request[p].call.data, 189, 194) = <<"0", "0", "1", "2", "3", "4">>

\* chars is "0x" followed by 40 lower-case hex digits
IsNormalizedAddress(chars) ==
  /\ Len(chars) = 2 + 2 * AddressLength
  /\ SubSeq(chars, 1, 2) = <<"0", "x">>
  /\ \A i \in 3..Len(chars) : \E j \in DOMAIN HexDigits : chars[i] = HexDigits[j]

\* the 64 characters of word w (1, 2, ...) of the calldata text
WordText(data, w) == SubSeq(data, 3 + 64 * (w - 1), 2 + 64 * w)

\* C19: the Node.js version accepts an address only if, behind an optional
\* 0x or 0X, it is exactly 40 hex characters; otherwise transferSim fails
\* before any request is made, and no request carries an address slot that
\* is not a 20-byte value.
C19_OnlyAddressesAccepted ==
  \A p \in DOMAIN pc :
    impl[p] = "js" =>
      /\ ~(IsAddressText(args[p].token) /\ IsAddressText(args[p].from)
             /\ IsAddressText(args[p].to)) =>
           /\ pc[p] = "rejected"
           /\ calls[p] = 0
           /\ request[p] = NoRequest
           /\ ret[p].error # NoErr
      /\ request[p] # NoRequest =>
           /\ IsNormalizedAddress(request[p].call.to)
           /\ DOMAIN request[p].overrides = {request[p].call.to}
           /\ HexToAddress(JSString(request[p].call.to)) =
                HexToAddress(args[p].to)
           /\ \A w \in 1..2 :
                /\ SubSeq(WordText(request[p].call.data, w), 1, 24) =
                     Fill(24, "0")
                /\ IsNormalizedAddress(
                     <<"0", "x">>
                       \o SubSeq(WordText(request[p].call.data, w), 25, 64))

\* a destination of 19 bytes is refused and no request is made
C19_Witness ==
  \E p \in DOMAIN pc :
    /\ impl[p] = "js" /\ pc[p] = "rejected" /\ calls[p] = 0
    /\ IsAddressText(args[p].token) /\ IsAddressText(args[p].from)
    /\ args[p].to.type = "string" /\ Len(args[p].to.str) = 40
    /\ Has0xPrefix(args[p].to.str)
    /\ ret[p].error = "to must be a 20-byte hex address"

\* C20: TransferSim of src/go never modifies the caller's amount, and the
\* value it returns on failure is a separate copy: a later change of the
\* returned value does not change the caller's amount, and a later change
\* of the amount does not change the returned value.
C20_AmountNotAliased ==
  [][\A p \in DOMAIN pc :
       (impl[p] = "go" /\ impl'[p] = "go") =>
         /\ pc[p] # "done" => heap'[p].amount = heap[p].amount
         /\ (pc[p] = "responded" /\ pc'[p] = "done"
               /\ response[p].err # NoErr) =>
              /\ heap'[p].ret = "result"
              /\ Received(heap'[p]) = heap[p].amount
         /\ (pc[p] = "done" /\ pc'[p] = "done") =>
              \/ Received(heap'[p]) = Received(heap[p])
              \/ heap'[p].amount = heap[p].amount]_vars

\* after a failed call the caller has changed what it received, and its
\* amount is what it passed
C20_Witness ==
  \E p \in DOMAIN pc :
    /\ impl[p] = "go" /\ pc[p] = "done"
    /\ response[p].err = "execution reverted"
    /\ args[p].amount = BigNat(<<18, 52>>)
    /\ ret[p].value = BigNat(<<18, 52>>)
    /\ Received(heap[p]) = BigNat(<<7>>)
    /\ heap[p].amount = BigNat(<<18, 52>>)

=============================================================================
